---- MODULE Spec2Model ----
(***************************************************************************)
(* Model of src/src/lib.rs: the Entry enum and the function attempt, which *)
(* selects among `available` the values that comply with `allowed` and     *)
(* `preferred`.  The function is modelled statement by statement; a call   *)
(* is a run from pc = "resolve" to pc = "done" (or "panic").  After the    *)
(* first call returns, attempt is called once more on its own output.      *)
(***************************************************************************)
EXTENDS Integers, Sequences, FiniteSets

\* ---------------------------------------------------------------- bounds
MaxVal == 3
MaxAvailable == 3
MaxAllowed == 2
MaxPreferred == 2

Vals == 1..MaxVal

\* ------------------------------------------------------------ enum Entry
Any == [tag |-> "Any", num |-> 0]

Value(v) == [tag |-> "Value", num |-> v]

Entry == {Any} \cup {Value(v) : v \in Vals}

SeqsUpTo(S, n) == UNION {[1..k -> S] : k \in 0..n}

\* ------------------------------------------------------- pure helpers
\* slice::contains
Contains(s, x) == \E k \in 1..Len(s) : s[k] = x

\* allowed.iter().map( Value( num ) => *num ).collect(); the Any arm is
\* unreachable!() and is handled by the caller of this operator
ValuesOf(entries) == [k \in 1..Len(entries) |-> entries[k].num]

\* the arm `Entry::Any => unreachable!()` of the map over allowed is hit
HitsUnreachable(entries) == \E k \in 1..Len(entries) : entries[k].tag = "Any"

\* the orders in which result.into_iter() may yield the set's elements
IterOrders(S) ==
    {s \in [1..Cardinality(S) -> S] :
        \A a, b \in 1..Cardinality(S) : a # b => s[a] # s[b]}

RemoveAt(s, k) == [n \in 1..(Len(s) - 1) |-> IF n < k THEN s[n] ELSE s[n + 1]]

MinIndex(s) == CHOOSE k \in 1..Len(s) : \A n \in 1..Len(s) : s[k] <= s[n]

MaxIndex(s) == CHOOSE k \in 1..Len(s) : \A n \in 1..Len(s) : s[k] >= s[n]

SortIdentity(s) == s

RECURSIVE SortDescending(_)
SortDescending(s) ==
    IF s = <<>> THEN <<>>
    ELSE <<s[MaxIndex(s)]>> \o SortDescending(RemoveAt(s, MaxIndex(s)))

\* result.sort()
RECURSIVE Sort(_)
Sort(s) ==
    IF s = <<>> THEN <<>>
    ELSE <<s[MinIndex(s)]>> \o Sort(RemoveAt(s, MinIndex(s)))

FilterNone(avail, allowedVec) == avail

FilterSorted(avail, allowedVec) ==
    Sort(SelectSeq(avail, LAMBDA n : Contains(allowedVec, n)))

\* available.iter().cloned().filter( |num| allowed.contains( num ) ).collect()
Filter(avail, allowedVec) == SelectSeq(avail, LAMBDA n : Contains(allowedVec, n))

EarlyOnEmptyPreferred(pres, pref) ==
    pres = <<>> \/ Contains(pref, Any) \/ pref = <<>>

EarlyOnEmptyPresentOnly(pres, pref) == pres = <<>>

\* present.is_empty() || preferred.contains( &Entry::Any )
ShouldReturnEarly(pres, pref) == pres = <<>> \/ Contains(pref, Any)

\* the `loop` over j: the 0-based index of the first element of present
\* strictly greater than num, or present.len() when there is none
RECURSIVE Scan(_, _, _)
Scan(pres, num, j) ==
    IF j >= Len(pres) THEN Len(pres)
    ELSE IF pres[j + 1] > num THEN j
    ELSE Scan(pres, num, j + 1)

\* present[ index - 1 ] underflows or is out of bounds
IndexFails(pres, num) ==
    /\ ~Contains(pres, num)
    /\ Scan(pres, num, 0) = Len(pres)
    /\ Len(pres) - 1 < 0

InsertedRequested(pres, num) == num

InsertedScanOnly(pres, num) ==
    LET index == Scan(pres, num, 0)
    IN  IF index < Len(pres) THEN pres[index + 1] ELSE pres[(index - 1) + 1]

InsertedFirstFallback(pres, num) ==
    IF Contains(pres, num) THEN num
    ELSE LET index == Scan(pres, num, 0)
         IN  IF index < Len(pres) THEN pres[index + 1] ELSE pres[1]

\* the value one Entry::Value( num ) of preferred inserts into result
Inserted(pres, num) ==
    IF Contains(pres, num) THEN num
    ELSE LET index == Scan(pres, num, 0)
         IN  IF index < Len(pres) THEN pres[index + 1] ELSE pres[(index - 1) + 1]

\* ------------------------------------------------------------- state
VARIABLES
    available,    \* argument available : &[ i32 ]
    allowed,      \* argument allowed : &[ Entry ]
    preferred,    \* argument preferred : &[ Entry ]
    pc,           \* position in attempt
    allowed_any,  \* let allowed_any
    allowed_vec,  \* let allowed (the shadowing Vec< i32 >)
    present,      \* let present
    result,       \* let mut result : HashSet< i32 >
    i,            \* loop variable of `for i in 0 .. preferred.len()`
    ret,          \* the returned Vec< i32 >
    panic,        \* "none", "unreachable" or "index"
    round,        \* 1: first call, 2: call on the first call's output
    prev          \* the first call's output

vars == <<available, allowed, preferred, pc, allowed_any, allowed_vec,
          present, result, i, ret, panic, round, prev>>

args == <<available, allowed, preferred>>

Init ==
    /\ available \in SeqsUpTo(Vals, MaxAvailable)
    /\ allowed \in SeqsUpTo(Entry, MaxAllowed)
    /\ preferred \in SeqsUpTo(Entry, MaxPreferred)
    /\ pc = "resolve"
    /\ allowed_any = FALSE
    /\ allowed_vec = <<>>
    /\ present = <<>>
    /\ result = {}
    /\ i = 0
    /\ ret = <<>>
    /\ panic = "none"
    /\ round = 1
    /\ prev = <<>>

\* lines 46-59
ResolveAllowed ==
    /\ pc = "resolve"
    /\ allowed_any' = Contains(allowed, Any)
    /\ IF allowed_any'
       THEN /\ allowed_vec' = available
            /\ pc' = "present"
            /\ panic' = panic
       ELSE IF HitsUnreachable(allowed)
       THEN /\ allowed_vec' = allowed_vec
            /\ pc' = "panic"
            /\ panic' = "unreachable"
       ELSE /\ allowed_vec' = ValuesOf(allowed)
            /\ pc' = "present"
            /\ panic' = panic
    /\ UNCHANGED <<args, present, result, i, ret, round, prev>>

\* lines 61-72
ComputePresent ==
    /\ pc = "present"
    /\ present' = IF allowed_any THEN allowed_vec
                  ELSE Filter(available, allowed_vec)
    /\ pc' = "check"
    /\ UNCHANGED <<args, allowed_any, allowed_vec, result, i, ret, panic,
                   round, prev>>

\* lines 74-77
ReturnPresent ==
    /\ pc = "check"
    /\ ShouldReturnEarly(present, preferred)
    /\ ret' = present
    /\ pc' = "done"
    /\ UNCHANGED <<args, allowed_any, allowed_vec, present, result, i, panic,
                   round, prev>>

\* lines 79-80
EnterLoop ==
    /\ pc = "check"
    /\ ~ShouldReturnEarly(present, preferred)
    /\ result' = {}
    /\ i' = 0
    /\ pc' = "loop"
    /\ UNCHANGED <<args, allowed_any, allowed_vec, present, ret, panic,
                   round, prev>>

\* lines 80-111, one iteration of the for loop
PreferredStep ==
    /\ pc = "loop"
    /\ i < Len(preferred)
    /\ LET e == preferred[i + 1]
       IN  IF e.tag = "Any"
           THEN /\ pc' = "panic"
                /\ panic' = "unreachable"
                /\ UNCHANGED <<result, i>>
           ELSE IF IndexFails(present, e.num)
           THEN /\ pc' = "panic"
                /\ panic' = "index"
                /\ UNCHANGED <<result, i>>
           ELSE /\ result' = result \cup {Inserted(present, e.num)}
                /\ i' = i + 1
                /\ UNCHANGED <<pc, panic>>
    /\ UNCHANGED <<args, allowed_any, allowed_vec, present, ret, round, prev>>

\* lines 112-114
Finalize ==
    /\ pc = "loop"
    /\ i >= Len(preferred)
    /\ \E order \in IterOrders(result) : ret' = Sort(order)
    /\ pc' = "done"
    /\ UNCHANGED <<args, allowed_any, allowed_vec, present, result, i, panic,
                   round, prev>>

\* attempt( &R, &allowed, &preferred ) where R is the first call's output
Reapply ==
    /\ pc = "done"
    /\ round = 1
    /\ prev' = ret
    /\ available' = ret
    /\ round' = 2
    /\ pc' = "resolve"
    /\ allowed_any' = FALSE
    /\ allowed_vec' = <<>>
    /\ present' = <<>>
    /\ result' = {}
    /\ i' = 0
    /\ ret' = <<>>
    /\ UNCHANGED <<allowed, preferred, panic>>

Next ==
    \/ ResolveAllowed
    \/ ComputePresent
    \/ ReturnPresent
    \/ EnterLoop
    \/ PreferredStep
    \/ Finalize
    \/ Reapply

Spec == Init /\ [][Next]_vars

\* ------------------------------------------------------------ properties
Returned == pc = "done"

Elems(s) == {s[k] : k \in 1..Len(s)}

\* v is permitted by the argument allowed
Permitted(v) ==
    \/ \E k \in 1..Len(allowed) : allowed[k] = Any
    \/ \E k \in 1..Len(allowed) : allowed[k] = Value(v)

PresentSet == {v \in Elems(available) : Permitted(v)}

PermittedSubseq == SelectSeq(available, Permitted)

Ascending(s) == \A a, b \in 1..Len(s) : a < b => s[a] <= s[b]

StrictlyAscending(s) == \A a, b \in 1..Len(s) : a < b => s[a] < s[b]

PreferredAny == \E k \in 1..Len(preferred) : preferred[k] = Any

\* the preferred values that are not in the present set
Missing == {preferred[k].num : k \in {n \in 1..Len(preferred) :
               preferred[n].tag = "Value" /\ preferred[n].num \notin PresentSet}}

\* the preferred values that are in the present set
Matched == {preferred[k].num : k \in {n \in 1..Len(preferred) :
               preferred[n].tag = "Value" /\ preferred[n].num \in PresentSet}}

Least(S) == CHOOSE x \in S : \A y \in S : x <= y

Greatest(S) == CHOOSE x \in S : \A y \in S : x >= y

\* C1: every value attempt returns is an element of available and is
\* permitted by allowed, the values inserted by the nearest-greater and
\* last-element fallbacks included.
ResultWithinAvailableAndAllowed ==
    Returned => \A k \in 1..Len(ret) :
                    ret[k] \in Elems(available) /\ Permitted(ret[k])

FallbackValueReturned ==
    /\ Returned /\ round = 1
    /\ ~PreferredAny
    /\ Missing # {}
    /\ ret # <<>>
    /\ Cardinality(Elems(available)) > Cardinality(PresentSet)

\* C2: if no element of available is permitted by allowed, attempt returns
\* the empty sequence, whatever preferred is.
EmptinessPropagation ==
    (Returned /\ PresentSet = {}) => ret = <<>>

NothingPermittedReturned ==
    /\ Returned /\ round = 1
    /\ available # <<>>
    /\ PresentSet = {}
    /\ PreferredAny
    /\ ret = <<>>

\* C3: every Value(v) of preferred whose v occurs in available and is
\* permitted by allowed is an element of the result.
ExactMatchContainment ==
    Returned => \A v \in Matched : v \in Elems(ret)

ExactMatchReturned ==
    /\ Returned /\ round = 1
    /\ ~PreferredAny
    /\ Matched # {}
    /\ \E v \in Matched : \E p \in PresentSet : p > v
    /\ Cardinality(Elems(ret)) < Cardinality(PresentSet)

\* C4: with available ascending and a non-empty present set, for every
\* Value(v) of preferred whose v is not in the present set the result
\* contains the least present value greater than v or, when no present
\* value is greater than v, the greatest present value.
NearestGreaterThenLower ==
    (Returned /\ Ascending(available) /\ PresentSet # {}) =>
        \A v \in Missing :
            LET greater == {p \in PresentSet : p > v}
            IN  IF greater # {} THEN Least(greater) \in Elems(ret)
                ELSE Greatest(PresentSet) \in Elems(ret)

NearestLowerReturned ==
    /\ Returned /\ round = 1
    /\ Ascending(available)
    /\ ~PreferredAny
    /\ Cardinality(PresentSet) >= 2
    /\ \E v \in Missing : \A p \in PresentSet : p < v
    /\ Greatest(PresentSet) \in Elems(ret)

\* C5: if preferred contains Any, attempt returns the present set as first
\* computed: all of available when allowed contains Any, otherwise the
\* subsequence of available whose elements occur among the Value entries of
\* allowed, in the order and multiplicity of available, neither sorted nor
\* deduplicated.
WildcardPreferredPassThrough ==
    (Returned /\ PreferredAny) =>
        ret = IF \E k \in 1..Len(allowed) : allowed[k] = Any
              THEN available
              ELSE SelectSeq(available,
                     LAMBDA n : \E k \in 1..Len(allowed) : allowed[k] = Value(n))

UnsortedPassThroughReturned ==
    /\ Returned /\ round = 1
    /\ PreferredAny
    /\ \A k \in 1..Len(allowed) : allowed[k] # Any
    /\ Len(ret) >= 2
    /\ Len(ret) < Len(available)
    /\ ~Ascending(ret)

\* C6 as stated: for all inputs the returned sequence is deduplicated and
\* in ascending order.
AlwaysSortedDeduplicated ==
    Returned => StrictlyAscending(ret)

\* C6 as amended: the returned sequence is deduplicated and ascending
\* exactly when preferred contains no Any or the subsequence of permitted
\* values of available is itself deduplicated and ascending.
SortedDeduplicatedUnlessPassThrough ==
    Returned =>
        (StrictlyAscending(ret) <=>
            (~PreferredAny \/ StrictlyAscending(PermittedSubseq)))

SortedFromUnsortedReturned ==
    /\ Returned /\ round = 1
    /\ ~PreferredAny
    /\ ~Ascending(PermittedSubseq)
    /\ Len(ret) >= 2

\* C7: whenever the present set is non-empty and preferred contains no Any,
\* the returned sequence is strictly ascending with no duplicate values,
\* for any available and even when several preferred entries resolve to
\* the same present value.
Step45StrictlyAscending ==
    (Returned /\ PresentSet # {} /\ ~PreferredAny) => StrictlyAscending(ret)

SharedResolutionReturned ==
    /\ Returned /\ round = 1
    /\ ~PreferredAny
    /\ ~Ascending(available)
    /\ Cardinality(Elems(available)) < Len(available)
    /\ Len(preferred) = 2
    /\ preferred[1] # preferred[2]
    /\ Len(ret) = 1

\* C8: if preferred is the empty sequence, attempt returns the empty
\* sequence even when the present set is non-empty.
EmptyPreferredEmptyResult ==
    (Returned /\ preferred = <<>>) => ret = <<>>

EmptyPreferredReturned ==
    /\ Returned /\ round = 1
    /\ preferred = <<>>
    /\ PresentSet # {}
    /\ ret = <<>>

\* C9: with R the output of attempt( available, allowed, preferred ) and
\* every element of R permitted by allowed, attempt( R, allowed, preferred )
\* returns R.
Idempotence ==
    (Returned /\ round = 2 /\ \A k \in 1..Len(prev) : Permitted(prev[k])) =>
        ret = prev

\* C10: attempt never reaches an unreachable!() arm, never reads
\* present[ index - 1 ] with present empty, and from every position before
\* its return it can take its next step.
NoReachableFailure ==
    /\ panic = "none"
    /\ pc # "panic"
    /\ pc = "loop" => (present # <<>> /\ ~PreferredAny /\ i <= Len(preferred))
    /\ pc # "done" => ENABLED Next

MixedEntriesReturned ==
    /\ Returned /\ round = 1
    /\ \E k \in 1..Len(allowed) : allowed[k] = Any
    /\ \E k \in 1..Len(allowed) : allowed[k] # Any
    /\ ~PreferredAny
    /\ \E v \in Missing : \A p \in PresentSet : p < v
    /\ ret # <<>>

====
